---- MODULE Spec2Model ----
(***************************************************************************)
(* Advent of Code leaderboard scanner (src/main.go).                       *)
(*                                                                         *)
(* The program keeps the last downloaded leaderboard document (lastBody)   *)
(* and the time it was read (lastRead), in memory and in .cache.json.      *)
(* refresh() downloads the current document, saves it, parses both         *)
(* documents and posts one notification per new member and per newly      *)
(* completed (day, part).                                                  *)
(*                                                                         *)
(* Time is counted in minutes.  A part pointer is modelled by its          *)
(* GotStarAt timestamp, Nil (0) standing for the nil pointer.              *)
(***************************************************************************)
EXTENDS Integers, Sequences, FiniteSets, TLC

VARIABLES
    now,        \* wall clock, minutes
    pc,         \* "stopped" | "running": is a process alive
    daemonize,  \* *daemonizeArg of the running process
    cacheFile,  \* .cache.json: NoFile or [last_read, last_body]
    lastRead,   \* main.lastRead
    lastBody,   \* main.lastBody
    sent,       \* notifications handed to sendNotification by the last cycle, in order
    prevBody,   \* lastBody as the last cycle found it
    outcome,    \* where the last cycle returned
    reqs,       \* times of the last two download requests, newest last
    probe,      \* the rank handed to getOrdinal when it is exercised alone
    cycleAt,    \* when refresh was last called, -1 before the first call
    delivered,  \* for each notification of sent: did sendNotification return nil
    prevOutcome,\* where the cycle before the last one returned
    notified,   \* the notifications of all cycles: sent once (seen), sent again (again)
    board,      \* the leaderboard as the server holds it
    inflight    \* refresh goroutines cron started that are waiting for their download

\* what the cycles leave for the properties to read
history == <<prevOutcome, notified>>

\* the server and the cron goroutines
surroundings == <<board, inflight>>

vars == <<now, pc, daemonize, cacheFile, lastRead, lastBody, sent, prevBody, outcome, reqs,
          probe, cycleAt, delivered, prevOutcome, notified, board, inflight>>

-----------------------------------------------------------------------------
(* Program constants *)

NumDays == 25
IntervalMinutes == 14
CronMinutes == 15
ordinals == <<"th", "st", "nd", "rd">>

(* Bounds of the model *)

MaxStars == 3       \* stars in one document of SpecDiff
MaxRankStars == 4   \* stars in one document of SpecRank
MaxPollStars == 1   \* stars in one document of Spec
MaxTime == 30       \* the clock stops here
MaxRank == 130      \* getOrdinal is applied to 1..MaxRank
MaxSeqTime == 60    \* the clock of the specifications of several cycles stops here
MaxInflight == 2    \* refresh goroutines waiting for their download at one time
MaxKey == 26        \* the largest numeral among the day keys of SpecKeys

MemberIds == {1, 2}     \* the members a document of SpecDiff lists
RankIds == {1, 2, 3}    \* the members a document of SpecRank lists
DayKeys == {1, 25}      \* the days that appear in completion_day_level
Stamps == {1, 2}        \* the get_star_ts values
SeqStamps == {1}        \* the get_star_ts values of the specifications of several cycles

Nil == 0

-----------------------------------------------------------------------------
(* Raw documents.  A body is empty (no bytes), garbage (bytes that are not *)
(* JSON), a JSON object without "members", or a JSON object whose members  *)
(* are listed in document order; a raw member carries its id and its       *)
(* completion_day_level entries [key, p1, p2] in document order.           *)

EmptyBody == [kind |-> "empty", members |-> <<>>]
GarbageBody == [kind |-> "garbage", members |-> <<>>]
NoMembersBody == [kind |-> "nomembers", members |-> <<>>]

\* A day object as the API sends it: part "1" alone, or parts "1" and "2",
\* part 2 not earlier than part 1.  [p1 |-> Nil, ...] stands for an absent key.
DayChoices ==
    {[p1 |-> Nil, p2 |-> Nil]}
        \cup {[p1 |-> a, p2 |-> Nil] : a \in Stamps}
        \cup {c \in [p1 : Stamps, p2 : Stamps] : c.p1 <= c.p2}

\* the entries of a completion_day_level object, by increasing key
RECURSIVE EntriesOf(_, _)
EntriesOf(f, k) ==
    IF k > NumDays THEN <<>>
    ELSE (IF k \in DOMAIN f /\ f[k].p1 # Nil
          THEN <<[key |-> k, p1 |-> f[k].p1, p2 |-> f[k].p2]>> ELSE <<>>)
         \o EntriesOf(f, k + 1)

RawCdls == {EntriesOf(f, 1) : f \in [DayKeys -> DayChoices]}

RECURSIVE RawStars(_)
RawStars(cdl) ==
    IF cdl = <<>> THEN 0
    ELSE 1 + (IF Head(cdl).p2 # Nil THEN 1 ELSE 0) + RawStars(Tail(cdl))

RECURSIVE DocStars(_)
DocStars(ms) == IF ms = <<>> THEN 0 ELSE RawStars(Head(ms).cdl) + DocStars(Tail(ms))

RECURSIVE MemberSeqs(_, _, _)
\* sequences of at most n raw members with ids of ids and completion tables of cdls
MemberSeqs(n, ids, cdls) ==
    IF n = 0 THEN {<<>>}
    ELSE LET shorter == MemberSeqs(n - 1, ids, cdls)
         IN shorter \cup
            {Append(ms, [id |-> i, cdl |-> c]) :
                 ms \in {x \in shorter : Len(x) = n - 1},
                 i \in ids,
                 c \in cdls}

DistinctIds(ms) == \A i, j \in 1..Len(ms) : i # j => ms[i].id # ms[j].id

\* the JSON documents whose members have pairwise distinct ids of ids, with at
\* most s stars together
JsonBodies(ids, cdls, s) ==
    {[kind |-> "json", members |-> ms] :
        ms \in {x \in MemberSeqs(Cardinality(ids), ids, cdls) :
                    DistinctIds(x) /\ DocStars(x) <= s}}

Bodies == JsonBodies(MemberIds, RawCdls, MaxStars) \cup {EmptyBody, GarbageBody, NoMembersBody}

\* members with at most one day populated
RankBodies == JsonBodies(RankIds, {c \in RawCdls : Len(c) <= 1}, MaxRankStars)

-----------------------------------------------------------------------------
(* buildLeaderboard: a member's CompletionDayLevel is a table indexed by   *)
(* dayIdx 0..NumDays-1; an entry with key k fills index k-1.  A key is     *)
(* modelled by the number its decimal numeral denotes, NotANumeral         *)
(* standing for every key that is no numeral.                              *)

EmptyDay == [Part1 |-> Nil, Part2 |-> Nil]

NewTable == [dayIdx \in 0..(NumDays - 1) |-> EmptyDay]

\* mutant: the day number is used as the index
SlotOfKeyNoShift(key) == key

NotANumeral == -100

\* completionDayNum, _ := strconv.Atoi(string(completionKey)): the number of a
\* numeral; 0 and an error, which is dropped, for any other key
Atoi(key) == IF key = NotANumeral THEN 0 ELSE key

\* strconv.Atoi(completionKey) - 1
SlotOfKey(key) == Atoi(key) - 1

\* member.CompletionDayLevel[completionDayNum-1] = ... with an index outside
\* the table of make([]completionDayData, 25): the run-time panics
IndexOutOfRange(key) == SlotOfKey(key) \notin DOMAIN NewTable

\* does visiting the documents' members reach an entry whose write panics
VisitPanics(raws) ==
    \E i \in DOMAIN raws : \E k \in DOMAIN raws[i].cdl : IndexOutOfRange(raws[i].cdl[k].key)

RECURSIVE VisitCompletion(_, _)
VisitCompletion(table, cdl) ==
    IF cdl = <<>> THEN table
    ELSE VisitCompletion(
             [table EXCEPT ![SlotOfKey(Head(cdl).key)] =
                 [Part1 |-> Head(cdl).p1, Part2 |-> Head(cdl).p2]],
             Tail(cdl))

BuildMember(raw) ==
    [ID |-> raw.id, CompletionDayLevel |-> VisitCompletion(NewTable, raw.cdl)]

\* members.Visit: leaderboard.Members = append(leaderboard.Members, member)
RECURSIVE VisitMembers(_)
VisitMembers(raws) ==
    IF raws = <<>> THEN <<>>
    ELSE <<BuildMember(Head(raws))>> \o VisitMembers(Tail(raws))

\* json.Unmarshal fails on a body that is not JSON (an empty one included);
\* a JSON object without "members" is visited as an object with no members.
\* panic: the function did not return, a slot write was out of range.
buildLeaderboard(body) ==
    IF body.kind \in {"empty", "garbage"}
    THEN [err |-> TRUE, panic |-> FALSE, Members |-> <<>>]
    ELSE IF VisitPanics(body.members)
    THEN [err |-> FALSE, panic |-> TRUE, Members |-> <<>>]
    ELSE [err |-> FALSE, panic |-> FALSE, Members |-> VisitMembers(body.members)]

-----------------------------------------------------------------------------
(* getTotalStars, getCompletionRank, getOrdinal, arrayFind *)

\* the stars one iteration of getTotalStars' loop adds
StarsOfDay(day, dayIdx, skipPart2OfDay) ==
    (IF day.Part1 # Nil THEN 1 ELSE 0)
    + (IF day.Part2 # Nil /\ skipPart2OfDay # dayIdx THEN 1 ELSE 0)

\* mutant: the total never leaves out the Part2 star of the day being reported
getTotalStarsNoSkip(member, skipPart2OfDay) ==
    LET total[dayIdx \in 0..NumDays] ==
            IF dayIdx = NumDays THEN 0
            ELSE StarsOfDay(member.CompletionDayLevel[dayIdx], dayIdx, -1)
                 + total[dayIdx + 1]
    IN total[0]

getTotalStars(member, skipPart2OfDay) ==
    LET total[dayIdx \in 0..NumDays] ==
            IF dayIdx = NumDays THEN 0
            ELSE StarsOfDay(member.CompletionDayLevel[dayIdx], dayIdx, skipPart2OfDay)
                 + total[dayIdx + 1]
    IN total[0]

PartOf(member, dayIdx, partNum) ==
    IF partNum = 1 THEN member.CompletionDayLevel[dayIdx].Part1
    ELSE member.CompletionDayLevel[dayIdx].Part2

\* mutant: a tie counts as ahead
AheadOrTied(part, targetTime) == part <= targetTime

\* part.GotStarAt < targetTime
Ahead(part, targetTime) == part < targetTime

\* mutant: the loop ends at the subject itself (break for continue)
RECURSIVE NumAheadBreak(_, _, _, _, _)
NumAheadBreak(members, inMember, dayIdx, partNum, i) ==
    IF i > Len(members) THEN 0
    ELSE LET member == members[i]
             part == PartOf(member, dayIdx, partNum)
             targetTime == PartOf(inMember, dayIdx, partNum)
             rest == NumAheadBreak(members, inMember, dayIdx, partNum, i + 1)
         IN IF member.ID = inMember.ID THEN 0
            ELSE IF part = Nil THEN rest
            ELSE IF Ahead(part, targetTime) THEN 1 + rest
            ELSE rest

\* the loop of getCompletionRank from members[i] on
RECURSIVE NumAheadFrom(_, _, _, _, _)
NumAheadFrom(members, inMember, dayIdx, partNum, i) ==
    IF i > Len(members) THEN 0
    ELSE LET member == members[i]
             part == PartOf(member, dayIdx, partNum)
             targetTime == PartOf(inMember, dayIdx, partNum)
             rest == NumAheadFrom(members, inMember, dayIdx, partNum, i + 1)
         IN IF member.ID = inMember.ID THEN rest
            ELSE IF part = Nil THEN rest
            ELSE IF Ahead(part, targetTime) THEN 1 + rest
            ELSE rest

getCompletionRank(leaderboard, inMember, dayIdx, partNum) ==
    NumAheadFrom(leaderboard.Members, inMember, dayIdx, partNum, 1)

\* mutant: the suffix is picked by the last digit alone
getOrdinalLastDigit(n) ==
    LET v == n % 10
    IN IF Len(ordinals) > v THEN ordinals[v + 1] ELSE ordinals[1]

getOrdinal(n) ==
    LET v == n % 100
    IN IF v >= 20 /\ Len(ordinals) > (v - 20) % 10 THEN ordinals[((v - 20) % 10) + 1]
       ELSE IF Len(ordinals) > v THEN ordinals[v + 1]
       ELSE ordinals[1]

\* index of the first member of array with this ID, 0 for nil
RECURSIVE arrayFindFrom(_, _, _)
arrayFindFrom(array, id, i) ==
    IF i > Len(array) THEN 0
    ELSE IF array[i].ID = id THEN i
    ELSE arrayFindFrom(array, id, i + 1)

\* mutant: the search starts one element late
arrayFindSkipsFirst(array, id) == arrayFindFrom(array, id, 2)

arrayFind(array, id) == arrayFindFrom(array, id, 1)

-----------------------------------------------------------------------------
(* The notification loop of refresh *)

NewMemberNote(member) ==
    [kind |-> "NewMember", id |-> member.ID, day |-> 0, part |-> 0,
     rank |-> 0, ordinal |-> "", at |-> 0, total |-> 0]

\* the closure s(part, partNum)
PartNote(leaderboard, member, dayIdx, part, partNum) ==
    LET skipPart2OfDay == IF partNum = 1 THEN dayIdx ELSE -1
        totalStars == getTotalStars(member, skipPart2OfDay)
        rank == getCompletionRank(leaderboard, member, dayIdx, partNum) + 1
    IN [kind |-> "PartCompleted", id |-> member.ID, day |-> dayIdx + 1, part |-> partNum,
        rank |-> rank, ordinal |-> getOrdinal(rank), at |-> part, total |-> totalStars]

\* mutant: the previous snapshot's slot is not looked at
NewlyCompletedIgnoresLast(part, lastPart) == part # Nil

NewlyCompleted(part, lastPart) == part # Nil /\ lastPart = Nil

\* mutant: the Part2 check comes first
DayNotesPart2First(leaderboard, member, lastMember, dayIdx) ==
    LET day == member.CompletionDayLevel[dayIdx]
        lastDay == lastMember.CompletionDayLevel[dayIdx]
    IN (IF NewlyCompleted(day.Part2, lastDay.Part2)
        THEN <<PartNote(leaderboard, member, dayIdx, day.Part2, 2)>> ELSE <<>>)
       \o
       (IF NewlyCompleted(day.Part1, lastDay.Part1)
        THEN <<PartNote(leaderboard, member, dayIdx, day.Part1, 1)>> ELSE <<>>)

DayNotes(leaderboard, member, lastMember, dayIdx) ==
    LET day == member.CompletionDayLevel[dayIdx]
        lastDay == lastMember.CompletionDayLevel[dayIdx]
    IN (IF NewlyCompleted(day.Part1, lastDay.Part1)
        THEN <<PartNote(leaderboard, member, dayIdx, day.Part1, 1)>> ELSE <<>>)
       \o
       (IF NewlyCompleted(day.Part2, lastDay.Part2)
        THEN <<PartNote(leaderboard, member, dayIdx, day.Part2, 2)>> ELSE <<>>)

\* for dayIdx, day := range member.CompletionDayLevel
DayLoop(leaderboard, member, lastMember) ==
    LET loop[dayIdx \in 0..NumDays] ==
            IF dayIdx = NumDays THEN <<>>
            ELSE DayNotes(leaderboard, member, lastMember, dayIdx) \o loop[dayIdx + 1]
    IN loop[0]

\* mutant: no continue after the new-challenger notification, the new member
\* being diffed against an empty table
MemberNotesNoContinue(lastLeaderboard, leaderboard, member) ==
    LET found == arrayFind(lastLeaderboard.Members, member.ID)
    IN IF found = 0
       THEN <<NewMemberNote(member)>>
            \o DayLoop(leaderboard, member, [ID |-> member.ID, CompletionDayLevel |-> NewTable])
       ELSE DayLoop(leaderboard, member, lastLeaderboard.Members[found])

MemberNotes(lastLeaderboard, leaderboard, member) ==
    LET found == arrayFind(lastLeaderboard.Members, member.ID)
    IN IF found = 0 THEN <<NewMemberNote(member)>>
       ELSE DayLoop(leaderboard, member, lastLeaderboard.Members[found])

RECURSIVE MemberLoop(_, _, _)
MemberLoop(lastLeaderboard, leaderboard, i) ==
    IF i > Len(leaderboard.Members) THEN <<>>
    ELSE MemberNotes(lastLeaderboard, leaderboard, leaderboard.Members[i])
         \o MemberLoop(lastLeaderboard, leaderboard, i + 1)

\* mutant: an empty lastBody is diffed as a leaderboard without members
CycleFirstRunAsNew(last, lastLeaderboard, leaderboard) ==
    IF last.kind = "empty"
    THEN IF leaderboard.err THEN [outcome |-> "currParseErr", sent |-> <<>>]
         ELSE [outcome |-> "firstRun",
               sent |-> MemberLoop([err |-> FALSE, Members |-> <<>>], leaderboard, 1)]
    ELSE IF lastLeaderboard.err THEN [outcome |-> "cachedParseErr", sent |-> <<>>]
    ELSE IF leaderboard.err THEN [outcome |-> "currParseErr", sent |-> <<>>]
    ELSE [outcome |-> "diffed", sent |-> MemberLoop(lastLeaderboard, leaderboard, 1)]

\* refresh from the len(lastBody) check on: where it returns and what it sent;
\* lastLeaderboard and leaderboard are what buildLeaderboard made of the two bodies
Cycle(last, lastLeaderboard, leaderboard) ==
    IF last.kind = "empty" THEN [outcome |-> "firstRun", sent |-> <<>>]
    ELSE IF lastLeaderboard.panic THEN [outcome |-> "panic", sent |-> <<>>]
    ELSE IF lastLeaderboard.err THEN [outcome |-> "cachedParseErr", sent |-> <<>>]
    ELSE IF leaderboard.panic THEN [outcome |-> "panic", sent |-> <<>>]
    ELSE IF leaderboard.err THEN [outcome |-> "currParseErr", sent |-> <<>>]
    ELSE [outcome |-> "diffed", sent |-> MemberLoop(lastLeaderboard, leaderboard, 1)]

-----
(* The process *)

\* what identifies a notification: its kind, member, day and part
KeyOf(note) == <<note.kind, note.id, note.day, note.part>>

NoneNotified == [seen |-> {}, again |-> {}, failed |-> {}]

RECURSIVE NoteAll(_, _, _)
\* the record of all cycles with the notifications of notes added, results
\* being what sendNotification returned for each
NoteAll(record, notes, results) ==
    IF notes = <<>> THEN record
    ELSE LET key == KeyOf(Head(notes))
         IN NoteAll([seen |-> record.seen \cup {key},
                     again |-> IF key \in record.seen THEN record.again \cup {key}
                               ELSE record.again,
                     failed |-> IF Head(results) THEN record.failed
                                ELSE record.failed \cup {key}],
                    Tail(notes), Tail(results))

NoFile == [exists |-> FALSE, last_read |-> 0, last_body |-> EmptyBody]

NoteRequest(rs, t) == IF Len(rs) < 2 THEN Append(rs, t) ELSE <<rs[2], t>>

\* main up to the definition of refresh: read .cache.json
Start(d) ==
    /\ pc = "stopped"
    /\ pc' = "running"
    /\ daemonize' = d
    /\ lastRead' = cacheFile.last_read
    /\ lastBody' = cacheFile.last_body
    /\ UNCHANGED <<now, cacheFile, sent, prevBody, outcome, reqs, probe, cycleAt>>
    /\ UNCHANGED <<delivered, history, surroundings>>

\* mutant: the gate lets a cycle through one minute early
TooSoonOffByOne == now - lastRead < IntervalMinutes - 1

TooSoon == now - lastRead < IntervalMinutes

\* c.AddFunc("*/15 * * * *", refresh): once in every minute divisible by 15
CronDue == now % CronMinutes = 0 /\ cycleAt # now

\* a daemon is interrupted (SIGINT, SIGTERM)
Quit ==
    /\ pc = "running"
    /\ daemonize
    /\ pc' = "stopped"
    /\ UNCHANGED <<now, daemonize, cacheFile, lastRead, lastBody, sent, prevBody, outcome,
                   reqs, probe, cycleAt>>
    /\ UNCHANGED <<delivered, history, surroundings>>

\* the results of n calls of sendNotification, each one of D (TRUE: nil,
\* FALSE: the POST failed or the status was not 200)
Results(n, D) == [1..n -> D]

\* mutant: the first failed delivery ends the cycle
AttemptsUntilError(notes, results) ==
    IF \A i \in DOMAIN notes : results[i] THEN notes
    ELSE SubSeq(notes, 1, CHOOSE i \in DOMAIN notes :
                              ~results[i] /\ \A j \in 1..(i - 1) : results[j])

\* the notifications the loop hands to sendNotification when the calls
\* return results: an error is logged and the loop goes on
Attempts(notes, results) == notes

\* mutant: the time of the request is recorded although the download failed
DownloadFailedStampsRead ==
    /\ outcome' = "downloadErr"
    /\ sent' = <<>>
    /\ delivered' = <<>>
    /\ lastRead' = now
    /\ UNCHANGED <<cacheFile, lastBody>>

\* downloadLeaderboardData returned an error (the request could not be made
\* or the response not be read): refresh logs it and returns.  A response
\* with an error status is no error: its body is returned as the document.
DownloadFailed ==
    /\ outcome' = "downloadErr"
    /\ sent' = <<>>
    /\ delivered' = <<>>
    /\ UNCHANGED <<cacheFile, lastRead, lastBody>>

\* mutant: lastBody is assigned at the end of the loop, not by a defer
DeferredLastBodyAfterLoop(currBody, c) ==
    IF c.outcome = "diffed" THEN currBody ELSE lastBody

\* mutant: lastBody is never replaced by the document of the cycle
DeferredLastBodyKept(currBody, c) == lastBody

\* defer func() { lastBody = currBody }(): runs at every return after the
\* download, wherever the cycle c returns
DeferredLastBody(currBody, c) == currBody

\* the statements of refresh after a download that returned currBody
Downloaded(currBody, W, D) ==
    \E lastLeaderboard \in {buildLeaderboard(lastBody)},
       leaderboard \in {buildLeaderboard(currBody)} :
        \E c \in {Cycle(lastBody, lastLeaderboard, leaderboard)} :
            /\ lastRead' = now
            /\ \E writeOK \in W :
                   cacheFile' = IF writeOK
                                THEN [exists |-> TRUE, last_read |-> now, last_body |-> currBody]
                                ELSE cacheFile
            /\ outcome' = c.outcome
            /\ \E results \in Results(Len(c.sent), D) :
                   \E tried \in {Attempts(c.sent, results)} :
                       /\ sent' = tried
                       /\ delivered' = SubSeq(results, 1, Len(tried))
            /\ lastBody' = DeferredLastBody(currBody, c)

\* one call of refresh, the API answering with a document of B or failing,
\* the write of .cache.json succeeding as W allows and the webhook answering
\* as D allows; a process without -d returns from main after it, and a panic
\* in refresh, which nothing recovers, ends the process
refresh(B, W, D) ==
    /\ pc = "running"
    /\ daemonize => CronDue
    /\ cycleAt' = now
    /\ prevBody' = lastBody
    /\ UNCHANGED <<now, daemonize, probe, surroundings>>
    /\ IF TooSoon
       THEN /\ outcome' = "tooSoon"
            /\ sent' = <<>>
            /\ delivered' = <<>>
            /\ UNCHANGED <<cacheFile, lastRead, lastBody, reqs>>
       ELSE /\ reqs' = NoteRequest(reqs, now)
            /\ \/ DownloadFailed
               \/ \E currBody \in B : Downloaded(currBody, W, D)
    /\ pc' = IF daemonize /\ outcome' # "panic" THEN "running" ELSE "stopped"

\* a cycle whose notifications are not added to the record of all cycles
Refresh(B, W, D) == refresh(B, W, D) /\ UNCHANGED history

Tick ==
    /\ now < MaxTime
    /\ now' = now + 1
    /\ UNCHANGED <<pc, daemonize, cacheFile, lastRead, lastBody, sent, prevBody, outcome, reqs,
                   probe, cycleAt>>
    /\ UNCHANGED <<delivered, history, surroundings>>

-----------------------------------------------------------------------------
(* Spec: the program over time.  It is started by hand or by an external   *)
(* schedule at any minute, without -d (one refresh) or with it (refresh on *)
(* the cron schedule until interrupted); the API answers with a document   *)
(* of PollBodies or the download fails.                                    *)

PollCdls ==
    {c \in RawCdls : \A k \in DOMAIN c : c[k].key = 1 /\ c[k].p1 = 1 /\ c[k].p2 \in {Nil, 1}}

PollBodies == JsonBodies({1}, PollCdls, MaxPollStars) \cup {GarbageBody}

Init ==
    /\ now = IntervalMinutes
    /\ pc = "stopped"
    /\ daemonize = FALSE
    /\ lastRead = 0
    /\ lastBody = EmptyBody
    /\ cacheFile = NoFile
    /\ sent = <<>>
    /\ prevBody = EmptyBody
    /\ outcome = "none"
    /\ reqs = <<>>
    /\ probe = 0
    /\ cycleAt = -1
    /\ delivered = <<>>
    /\ prevOutcome = "none"
    /\ notified = NoneNotified
    /\ board = NoMembersBody
    /\ inflight = 0

Next ==
    \/ Tick
    \/ \E d \in BOOLEAN : Start(d)
    \/ Refresh(PollBodies, BOOLEAN, {TRUE})
    \/ Quit

Spec == Init /\ [][Next]_vars

-----------------------------------------------------------------------------
(* SpecMono and SpecSeq: a daemon over several cycles.  The server holds a *)
(* leaderboard that only grows: members join and complete the parts of day *)
(* 1.  In SpecMono every download returns the leaderboard; in SpecSeq a    *)
(* download may also return a document that is not JSON.  The cache writes *)
(* succeed; a delivery may fail.  The daemon starts on a cache that holds  *)
(* the leaderboard (SpecMono, SpecSeq) or a document that is not JSON      *)
(* (SpecHeal).  In SpecMono the process may also be stopped and started    *)
(* again, with or without -d.                                              *)

Board0 == [kind |-> "json", members |-> <<[id |-> 1, cdl |-> <<>>]>>]

\* the completion table of a member after the next part of day 1
NextParts(cdl) ==
    IF cdl = <<>> THEN {<<[key |-> 1, p1 |-> t, p2 |-> Nil]>> : t \in SeqStamps}
    ELSE IF cdl[1].p2 = Nil
    THEN {<<[key |-> 1, p1 |-> cdl[1].p1, p2 |-> t]>> : t \in {u \in SeqStamps : u >= cdl[1].p1}}
    ELSE {}

\* a member joins the leaderboard or completes a part
Progress ==
    /\ \/ \E i \in MemberIds \ {board.members[k].id : k \in DOMAIN board.members} :
              board' = [board EXCEPT !.members = Append(@, [id |-> i, cdl |-> <<>>])]
       \/ \E k \in DOMAIN board.members :
              \E cdl \in NextParts(board.members[k].cdl) :
                  board' = [board EXCEPT !.members[k].cdl = cdl]
    /\ UNCHANGED <<now, pc, daemonize, cacheFile, lastRead, lastBody, sent, prevBody, outcome,
                   reqs, probe, cycleAt, delivered, history, inflight>>

\* time passes until the next minute of the cron schedule
CronWait ==
    /\ (now \div CronMinutes + 1) * CronMinutes <= MaxSeqTime
    /\ now' = (now \div CronMinutes + 1) * CronMinutes
    /\ UNCHANGED <<pc, daemonize, cacheFile, lastRead, lastBody, sent, prevBody, outcome, reqs,
                   probe, cycleAt, delivered, history, surroundings>>

Downloading == {"firstRun", "cachedParseErr", "currParseErr", "diffed"}

\* a cycle that is recorded: the API answers with the leaderboard or a
\* document of Other, or the download fails
Poll(Other) ==
    /\ refresh({board} \cup Other, {TRUE}, BOOLEAN)
    /\ prevOutcome' = IF outcome \in Downloading THEN outcome ELSE prevOutcome
    /\ notified' = NoteAll(notified, sent', delivered')

InitSeq ==
    /\ now = IntervalMinutes
    /\ pc = "running"
    /\ daemonize = TRUE
    /\ lastRead = 0
    /\ lastBody = Board0
    /\ cacheFile = [exists |-> TRUE, last_read |-> 0, last_body |-> Board0]
    /\ sent = <<>>
    /\ prevBody = Board0
    /\ outcome = "none"
    /\ reqs = <<>>
    /\ probe = 0
    /\ cycleAt = -1
    /\ delivered = <<>>
    /\ prevOutcome = "none"
    /\ notified = NoneNotified
    /\ board = Board0
    /\ inflight = 0

NextMono ==
    \/ CronWait
    \/ Progress
    \/ Poll({})
    \/ Quit
    \/ \E d \in BOOLEAN : Start(d)

SpecMono == InitSeq /\ [][NextMono]_vars

NextSeq == CronWait \/ Progress \/ Poll({GarbageBody})

SpecSeq == InitSeq /\ [][NextSeq]_vars

\* SpecHeal: the same daemon started on a cache whose last_body is not JSON
InitHeal ==
    /\ now = IntervalMinutes
    /\ pc = "running"
    /\ daemonize = TRUE
    /\ lastRead = 0
    /\ lastBody = GarbageBody
    /\ cacheFile = [exists |-> TRUE, last_read |-> 0, last_body |-> GarbageBody]
    /\ sent = <<>>
    /\ prevBody = GarbageBody
    /\ outcome = "none"
    /\ reqs = <<>>
    /\ probe = 0
    /\ cycleAt = -1
    /\ delivered = <<>>
    /\ prevOutcome = "none"
    /\ notified = NoneNotified
    /\ board = Board0
    /\ inflight = 0

SpecHeal == InitHeal /\ [][NextSeq]_vars

-----------------------------------------------------------------------------
(* SpecCron: a daemon whose downloads take time.  cron starts refresh in a *)
(* goroutine of its own at every minute of the schedule (cron.New() has no *)
(* job wrapper that skips or delays a run while another is running), and   *)
(* http.DefaultClient has no timeout, so a refresh stays in               *)
(* downloadLeaderboardData until the server answers.  The steps of the     *)
(* goroutines are taken one at a time, which is one of the outcomes of     *)
(* their unsynchronised use of lastRead and lastBody.                      *)

\* cron starts refresh: the goroutine passes the gate and sends the request
CronFire ==
    /\ pc = "running" /\ daemonize
    /\ CronDue
    /\ inflight < MaxInflight
    /\ cycleAt' = now
    /\ IF TooSoon
       THEN /\ outcome' = "tooSoon"
            /\ sent' = <<>>
            /\ delivered' = <<>>
            /\ UNCHANGED <<reqs, inflight>>
       ELSE /\ reqs' = NoteRequest(reqs, now)
            /\ inflight' = inflight + 1
            /\ UNCHANGED <<outcome, sent, delivered>>
    /\ UNCHANGED <<now, pc, daemonize, cacheFile, lastRead, lastBody, prevBody, probe,
                   history, board>>

\* the download of one goroutine returns and its refresh runs to the end
DownloadReturns ==
    /\ inflight > 0
    /\ inflight' = inflight - 1
    /\ prevBody' = lastBody
    /\ \/ DownloadFailed
       \/ \E currBody \in PollBodies : Downloaded(currBody, {TRUE}, {TRUE})
    /\ UNCHANGED <<now, pc, daemonize, reqs, probe, cycleAt, history, board>>

InitCron ==
    /\ now = IntervalMinutes
    /\ pc = "running"
    /\ daemonize = TRUE
    /\ lastRead = 0
    /\ lastBody = EmptyBody
    /\ cacheFile = NoFile
    /\ sent = <<>>
    /\ prevBody = EmptyBody
    /\ outcome = "none"
    /\ reqs = <<>>
    /\ probe = 0
    /\ cycleAt = -1
    /\ delivered = <<>>
    /\ prevOutcome = "none"
    /\ notified = NoneNotified
    /\ board = NoMembersBody
    /\ inflight = 0

NextCron == Tick \/ CronFire \/ DownloadReturns

SpecCron == InitCron /\ [][NextCron]_vars

-----------------------------------------------------------------------------
(* SpecKeys: the program over time, as in Spec, the API answering with a   *)
(* well-formed document whose one member has no completion or one under a  *)
(* key that is a day number, a numeral that is no day number, or no        *)
(* numeral.  The cache writes and the deliveries succeed.                  *)

AnyKeys == {0, 1, NumDays, MaxKey, NotANumeral}

KeyCdls == {<<>>} \cup {<<[key |-> k, p1 |-> 1, p2 |-> Nil]>> : k \in AnyKeys}

KeyBodies == {[kind |-> "json", members |-> <<[id |-> 1, cdl |-> c]>>] : c \in KeyCdls}

NextKeys ==
    \/ Tick
    \/ \E d \in BOOLEAN : Start(d)
    \/ Refresh(KeyBodies, {TRUE}, {TRUE})
    \/ Quit

SpecKeys == Init /\ [][NextKeys]_vars

-----------------------------------------------------------------------------
(* SpecDiff: one poll cycle of a process that loaded a cache written long  *)
(* ago, over every pair of documents, the cache write and the deliveries   *)
(* succeeding.                                                             *)

InitDiff ==
    /\ now = IntervalMinutes
    /\ pc = "running"
    /\ daemonize = FALSE
    /\ lastRead = 0
    /\ lastBody \in Bodies
    /\ cacheFile = [exists |-> TRUE, last_read |-> 0, last_body |-> lastBody]
    /\ sent = <<>>
    /\ prevBody = EmptyBody
    /\ outcome = "none"
    /\ reqs = <<>>
    /\ probe = 0
    /\ cycleAt = -1
    /\ delivered = <<>>
    /\ prevOutcome = "none"
    /\ notified = NoneNotified
    /\ board = NoMembersBody
    /\ inflight = 0

NextDiff == Refresh(Bodies, {TRUE}, {TRUE})

SpecDiff == InitDiff /\ [][NextDiff]_vars

-----------------------------------------------------------------------------
(* SpecRank: the closure s applied once to a completed (member, day, part) *)
(* of a parsed leaderboard of RankBodies.                                  *)

InitRank ==
    /\ now = IntervalMinutes
    /\ pc = "running"
    /\ daemonize = FALSE
    /\ lastRead = 0
    /\ lastBody \in RankBodies
    /\ cacheFile = [exists |-> TRUE, last_read |-> 0, last_body |-> lastBody]
    /\ sent = <<>>
    /\ prevBody = lastBody
    /\ outcome = "none"
    /\ reqs = <<>>
    /\ probe = 0
    /\ cycleAt = -1
    /\ delivered = <<>>
    /\ prevOutcome = "none"
    /\ notified = NoneNotified
    /\ board = NoMembersBody
    /\ inflight = 0

Notify ==
    /\ outcome = "none"
    /\ \E leaderboard \in {buildLeaderboard(lastBody)} :
           \E i \in DOMAIN leaderboard.Members, dayIdx \in 0..(NumDays - 1), partNum \in {1, 2} :
               /\ PartOf(leaderboard.Members[i], dayIdx, partNum) # Nil
               /\ sent' = <<PartNote(leaderboard, leaderboard.Members[i], dayIdx,
                                     PartOf(leaderboard.Members[i], dayIdx, partNum), partNum)>>
    /\ outcome' = "notified"
    /\ UNCHANGED <<now, pc, daemonize, cacheFile, lastRead, lastBody, prevBody, reqs, probe,
                   cycleAt>>
    /\ UNCHANGED <<delivered, history, surroundings>>

SpecRank == InitRank /\ [][Notify]_vars

-----------------------------------------------------------------------------
(* SpecOrdinal: getOrdinal applied to every rank up to MaxRank.            *)

InitOrdinal ==
    /\ now = IntervalMinutes
    /\ pc = "running"
    /\ daemonize = FALSE
    /\ lastRead = 0
    /\ lastBody = EmptyBody
    /\ cacheFile = NoFile
    /\ sent = <<>>
    /\ prevBody = EmptyBody
    /\ outcome = "none"
    /\ reqs = <<>>
    /\ probe \in 1..MaxRank
    /\ cycleAt = -1
    /\ delivered = <<>>
    /\ prevOutcome = "none"
    /\ notified = NoneNotified
    /\ board = NoMembersBody
    /\ inflight = 0

Render ==
    /\ outcome = "none"
    /\ outcome' = "rendered"
    /\ sent' = <<[kind |-> "Ordinal", id |-> 0, day |-> 0, part |-> 0,
                  rank |-> probe, ordinal |-> getOrdinal(probe), at |-> 0, total |-> 0]>>
    /\ UNCHANGED <<now, pc, daemonize, cacheFile, lastRead, lastBody, prevBody, reqs, probe,
                   cycleAt>>
    /\ UNCHANGED <<delivered, history, surroundings>>

SpecOrdinal == InitOrdinal /\ [][Render]_vars

-----------------------------------------------------------------------------
(* What the properties below read off a cycle: the two raw documents and   *)
(* the notifications.                                                      *)

\* the last cycle downloaded a document
CycleRan == outcome \in {"firstRun", "cachedParseErr", "currParseErr", "diffed"}

\* the last cycle parsed both documents and ran the notification loop
Diffed == outcome = "diffed"

\* after a cycle that downloaded, lastBody is the document it downloaded
currentBody == lastBody

PosOf(body, id) == CHOOSE i \in DOMAIN body.members : body.members[i].id = id

RawMemberOf(body, id) == body.members[PosOf(body, id)]

\* the completion record of (id, day, part) in a raw document, Nil when absent
RawPart(body, id, day, part) ==
    LET cdl == RawMemberOf(body, id).cdl
    IN IF \E k \in DOMAIN cdl : cdl[k].key = day
       THEN LET e == cdl[CHOOSE k \in DOMAIN cdl : cdl[k].key = day]
            IN IF part = 1 THEN e.p1 ELSE e.p2
       ELSE Nil

IdsOf(body) == {body.members[i].id : i \in DOMAIN body.members}

InBoth == IdsOf(prevBody) \cap IdsOf(currentBody)

PartNotes(id, day, part) ==
    {i \in DOMAIN sent : /\ sent[i].kind = "PartCompleted"
                         /\ sent[i].id = id /\ sent[i].day = day /\ sent[i].part = part}

NewMemberNotes(id) == {i \in DOMAIN sent : sent[i].kind = "NewMember" /\ sent[i].id = id}

CompletionNotes(id) == {i \in DOMAIN sent : sent[i].kind = "PartCompleted" /\ sent[i].id = id}

\* the days a raw document lists for id: no other day has a populated slot
DaysOf(body, id) ==
    LET cdl == RawMemberOf(body, id).cdl IN {cdl[k].key : k \in DOMAIN cdl}

NewlyPopulated(id, day, part) ==
    RawPart(prevBody, id, day, part) = Nil /\ RawPart(currentBody, id, day, part) # Nil

\* C1: for a member present in both snapshots, a cycle sends a PartCompleted
\* notification for (member, day, part) exactly when the slot is empty in the
\* previous snapshot and populated in the current one, and then exactly once.
C1_PartCompletedIffNewlyPopulated ==
    Diffed =>
        /\ \A i \in DOMAIN sent :
               (sent[i].kind = "PartCompleted" /\ sent[i].id \in InBoth) =>
                   /\ sent[i].day \in 1..NumDays
                   /\ sent[i].part \in {1, 2}
                   /\ NewlyPopulated(sent[i].id, sent[i].day, sent[i].part)
                   /\ Cardinality(PartNotes(sent[i].id, sent[i].day, sent[i].part)) = 1
        /\ \A id \in InBoth :
               \A day \in DaysOf(currentBody, id), part \in {1, 2} :
                   NewlyPopulated(id, day, part) => PartNotes(id, day, part) # {}

\* the scenario of the specification: A had day 1 part 1, now has both parts,
\* and B joined with day 1 part 1
C1_Witness ==
    /\ Diffed
    /\ Len(sent) = 2
    /\ \E a, b \in IdsOf(currentBody) :
           /\ a # b /\ a \in IdsOf(prevBody) /\ b \notin IdsOf(prevBody)
           /\ RawPart(prevBody, a, 1, 1) # Nil /\ RawPart(prevBody, a, 1, 2) = Nil
           /\ RawPart(currentBody, a, 1, 2) # Nil /\ RawPart(currentBody, b, 1, 1) # Nil
           /\ PartNotes(a, 1, 2) # {} /\ PartNotes(a, 1, 1) = {}
           /\ NewMemberNotes(b) # {} /\ CompletionNotes(b) = {}

\* C2: a member absent from the parsed previous snapshot and present in the
\* current one gets exactly one NewMember notification and no PartCompleted one.
C2_NewMemberOnce ==
    Diffed =>
        \A id \in IdsOf(currentBody) \ IdsOf(prevBody) :
            /\ Cardinality(NewMemberNotes(id)) = 1
            /\ CompletionNotes(id) = {}

C2_Witness ==
    /\ Diffed
    /\ \E id \in IdsOf(currentBody) \ IdsOf(prevBody) :
           /\ RawStars(RawMemberOf(currentBody, id).cdl) >= 3
           /\ NewMemberNotes(id) # {}
    /\ IdsOf(prevBody) # {}

\* C3: a cycle whose previous and current documents are the same sends nothing.
C3_SameSnapshotSendsNothing ==
    (CycleRan /\ prevBody = currentBody) => sent = <<>>

C3_Witness ==
    /\ Diffed
    /\ prevBody = currentBody
    /\ Len(currentBody.members) = 2
    /\ DocStars(currentBody.members) >= 3
    /\ sent = <<>>

\* C4 as claimed: on a first run (no previous document) every member of the
\* current snapshot gets exactly one NewMember notification.
C4_FirstRunNewMemberEach ==
    (CycleRan /\ prevBody.kind = "empty" /\ currentBody.kind = "json") =>
        /\ \A id \in IdsOf(currentBody) : Cardinality(NewMemberNotes(id)) = 1
        /\ \A i \in DOMAIN sent : sent[i].kind # "PartCompleted"

\* C4 as amended: on a first run the cycle only saves the document: it sends
\* no notification at all, neither NewMember nor PartCompleted.
C4_FirstRunSendsNothing ==
    (CycleRan /\ prevBody.kind = "empty") => (outcome = "firstRun" /\ sent = <<>>)

C4_Witness ==
    /\ outcome = "firstRun"
    /\ prevBody.kind = "empty"
    /\ Len(currentBody.members) = 2
    /\ DocStars(currentBody.members) >= 3
    /\ cacheFile.last_body = currentBody
    /\ sent = <<>>

\* C5: when both parts of day D are newly completed in one cycle, the Part1
\* notification carries the member's full current star count minus 1 and the
\* Part2 notification the full count.
C5_TotalsWhenBothPartsNew ==
    Diffed =>
        \A i \in DOMAIN sent :
            (/\ sent[i].kind = "PartCompleted"
             /\ sent[i].id \in InBoth
             /\ NewlyPopulated(sent[i].id, sent[i].day, 1)
             /\ NewlyPopulated(sent[i].id, sent[i].day, 2)) =>
                LET full == RawStars(RawMemberOf(currentBody, sent[i].id).cdl)
                IN sent[i].total = IF sent[i].part = 1 THEN full - 1 ELSE full

C5_Witness ==
    /\ Diffed
    /\ \E i, j \in DOMAIN sent :
           /\ sent[i].kind = "PartCompleted" /\ sent[j].kind = "PartCompleted"
           /\ sent[i].id = sent[j].id /\ sent[i].day = sent[j].day
           /\ sent[i].part = 1 /\ sent[j].part = 2
           /\ sent[i].total = 2 /\ sent[j].total = 3

\* C8: notifications go out in member order of the current snapshot, within a
\* member by increasing day, and for one day Part1 before Part2.
C8_SendOrder ==
    Diffed =>
        \A i, j \in DOMAIN sent :
            i < j =>
                \/ PosOf(currentBody, sent[i].id) < PosOf(currentBody, sent[j].id)
                \/ /\ sent[i].id = sent[j].id
                   /\ \/ sent[i].day < sent[j].day
                      \/ sent[i].day = sent[j].day /\ sent[i].part < sent[j].part

C8_Witness ==
    /\ Diffed
    /\ Len(sent) = 3
    /\ sent[1].id = sent[2].id /\ sent[1].day < sent[2].day
    /\ sent[3].id # sent[1].id /\ sent[3].kind = "PartCompleted"
    /\ sent[3].id < sent[1].id

\* C6: the displayed rank of a completed (subject, day, part) is 1 plus the
\* number of other members of the snapshot whose record for that day and part
\* exists and is strictly earlier.
C6_RankCountsStrictlyEarlier ==
    outcome = "notified" =>
        LET n == sent[1]
            mine == RawPart(lastBody, n.id, n.day, n.part)
        IN /\ mine # Nil
           /\ n.rank = 1 + Cardinality({id \in IdsOf(lastBody) \ {n.id} :
                                           /\ RawPart(lastBody, id, n.day, n.part) # Nil
                                           /\ RawPart(lastBody, id, n.day, n.part) < mine})

\* three members have the part: one earlier than the subject, one tied with it
C6_Witness ==
    /\ outcome = "notified"
    /\ sent[1].rank = 2
    /\ sent[1].day = NumDays
    /\ \E a, b \in IdsOf(lastBody) \ {sent[1].id} :
           /\ a # b
           /\ RawPart(lastBody, a, sent[1].day, sent[1].part) # Nil
           /\ RawPart(lastBody, a, sent[1].day, sent[1].part) < sent[1].at
           /\ RawPart(lastBody, b, sent[1].day, sent[1].part) = sent[1].at

Permuted(seq, f) == [i \in DOMAIN seq |-> seq[f[i]]]

\* C7: getCompletionRank gives the same value for every order of the members.
C7_RankOrderInvariant ==
    outcome = "notified" =>
        \A leaderboard \in {buildLeaderboard(lastBody)} :
            \A f \in Permutations(DOMAIN leaderboard.Members) :
                \A shuffled \in {[err |-> FALSE, Members |-> Permuted(leaderboard.Members, f)]} :
                    \A i \in DOMAIN shuffled.Members :
                        shuffled.Members[i].ID = sent[1].id =>
                            getCompletionRank(shuffled, shuffled.Members[i],
                                              sent[1].day - 1, sent[1].part) + 1
                                = sent[1].rank

\* the subject is last of three and both others were earlier
C7_Witness ==
    /\ outcome = "notified"
    /\ Len(lastBody.members) = 3
    /\ sent[1].id = lastBody.members[3].id
    /\ sent[1].rank = 3

\* C9: getOrdinal follows the English rule: "th" when the last two digits are
\* 11, 12 or 13; otherwise "st", "nd", "rd" for last digit 1, 2, 3; else "th".
C9_OrdinalRule ==
    outcome = "rendered" =>
        LET n == sent[1].rank
        IN sent[1].ordinal =
               IF n % 100 \in {11, 12, 13} THEN "th"
               ELSE IF n % 10 = 1 THEN "st"
               ELSE IF n % 10 = 2 THEN "nd"
               ELSE IF n % 10 = 3 THEN "rd"
               ELSE "th"

C9_Witness ==
    /\ outcome = "rendered"
    /\ sent[1].rank = 111
    /\ sent[1].ordinal = "th"

\* C10: any two download requests are at least 14 minutes apart, also when a
\* download fails.
C10_RequestsSpaced ==
    Len(reqs) = 2 => reqs[2] - reqs[1] >= IntervalMinutes

\* C20 as claimed: within one cycle no two PartCompleted notifications of the
\* same member carry the same total of stars, also when the member newly
\* completed parts of several days.
C20_TotalsDistinctInCycle ==
    Diffed =>
        \A i, j \in DOMAIN sent :
            (/\ i < j
             /\ sent[i].kind = "PartCompleted" /\ sent[j].kind = "PartCompleted"
             /\ sent[i].id = sent[j].id) =>
                sent[i].total # sent[j].total

-----------------------------------------------------------------------------
(* Properties of the parser. *)

\* C15 as claimed: buildLeaderboard returns an error for every document that
\* is not well-formed or has no "members" object, so a cycle given such a
\* document as previous or current one ends at that error and sends nothing.
C15_NoSnapshotWithoutMembers ==
    outcome \in Downloading =>
        /\ prevBody.kind \in {"garbage", "nomembers"} => outcome = "cachedParseErr"
        /\ (prevBody.kind = "json" /\ currentBody.kind # "json") =>
               (outcome = "currParseErr" /\ sent = <<>>)

\* C16: every member of a parsed leaderboard has a completion table of
\* exactly 25 slots, indexed 0..24: the slot d-1 holds the parts of the day
\* with key d of the raw document, and the slot of a day the raw document
\* does not list has both parts empty.
C16_TableOf25Slots ==
    outcome = "notified" =>
        \A leaderboard \in {buildLeaderboard(lastBody)} :
            /\ ~leaderboard.err
            /\ Len(leaderboard.Members) = Len(lastBody.members)
            /\ \A i \in DOMAIN leaderboard.Members :
                   \A member \in {leaderboard.Members[i]}, raw \in {lastBody.members[i]} :
                       /\ member.ID = raw.id
                       /\ DOMAIN member.CompletionDayLevel = 0..24
                       /\ \A dayIdx \in 0..24 :
                              member.CompletionDayLevel[dayIdx] =
                                  IF \E k \in DOMAIN raw.cdl : raw.cdl[k].key = dayIdx + 1
                                  THEN LET e == raw.cdl[CHOOSE k \in DOMAIN raw.cdl :
                                                           raw.cdl[k].key = dayIdx + 1]
                                       IN [Part1 |-> e.p1, Part2 |-> e.p2]
                                  ELSE [Part1 |-> Nil, Part2 |-> Nil]

\* the notification is about day 25 of one member, another member has day 1
\* only and a third no day at all
C16_Witness ==
    /\ outcome = "notified"
    /\ sent[1].day = 25
    /\ \E a, b \in IdsOf(lastBody) \ {sent[1].id} :
           /\ a # b
           /\ RawPart(lastBody, a, 1, 1) # Nil /\ RawPart(lastBody, a, 25, 1) = Nil
           /\ RawMemberOf(lastBody, b).cdl = <<>>

\* the well-formed documents buildLeaderboard was called with in the last cycle
ParsedInCycle ==
    IF outcome \in {"currParseErr", "diffed"} THEN {prevBody, lastBody}
    ELSE IF outcome = "cachedParseErr" THEN {prevBody}
    ELSE IF outcome = "panic"
    THEN IF buildLeaderboard(prevBody).panic THEN {prevBody} ELSE {prevBody, lastBody}
    ELSE {}

\* C21 as claimed: whatever the day keys of a well-formed document, in 1..25
\* or not, numerals or not, buildLeaderboard returns a leaderboard or an
\* error and writes no slot outside the table: no cycle ends in a panic.
C21_ParserNeverAborts ==
    /\ outcome # "panic"
    /\ \A body \in ParsedInCycle :
           /\ ~buildLeaderboard(body).panic
           /\ \A i \in DOMAIN body.members : \A k \in DOMAIN body.members[i].cdl :
                  SlotOfKey(body.members[i].cdl[k].key) \in 0..(NumDays - 1)

-----------------------------------------------------------------------------
(* Properties of one step: what a call of refresh leaves unchanged.        *)

\* the step is a call of refresh: a running process takes a step other than
\* the passing of time or its interruption
RefreshCalled ==
    /\ pc = "running"
    /\ now' = now
    /\ pc' = IF daemonize THEN "running" ELSE "stopped"
    /\ vars' # vars

\* C11: a cycle called less than 14 minutes after the recorded last read
\* returns at the gate: it requests no download, sends no notification, and
\* leaves lastRead, lastBody and the cache file as they were.
C11_TooSoonIsNoOp ==
    [][(RefreshCalled /\ now - lastRead < IntervalMinutes) =>
           /\ outcome' = "tooSoon"
           /\ sent' = <<>>
           /\ reqs' = reqs
           /\ lastRead' = lastRead
           /\ lastBody' = lastBody
           /\ cacheFile' = cacheFile]_vars

\* a process run once has just returned at the gate, 13 minutes after a
\* download that was saved
C11_Witness ==
    /\ outcome = "tooSoon"
    /\ pc = "stopped" /\ ~daemonize
    /\ cycleAt = now
    /\ now - lastRead = IntervalMinutes - 1
    /\ lastBody.kind = "json"
    /\ cacheFile = [exists |-> TRUE, last_read |-> lastRead, last_body |-> lastBody]
    /\ reqs = <<lastRead>>

C17_CyclesNeverOverlap == inflight <= 1

-----------------------------------------------------------------------------
(* Properties of several cycles. *)

SentKeys == {KeyOf(sent[i]) : i \in DOMAIN sent}

\* what the two raw documents of a cycle call for: a NewMember notification
\* for each member the previous one lacks, a PartCompleted notification for
\* each slot of a member of both that is newly populated
ExpectedKeys ==
    {<<"NewMember", id, 0, 0>> : id \in IdsOf(currentBody) \ IdsOf(prevBody)}
        \cup {<<"PartCompleted", x[1], x[2], x[3]>> :
                  x \in {y \in InBoth \X DayKeys \X {1, 2} : NewlyPopulated(y[1], y[2], y[3])}}

\* C13: a cycle that cannot parse the cached document still saves the
\* document it downloaded, in memory and in the cache file, and when that
\* document is well-formed the next cycle that downloads a well-formed
\* document diffs against it and sends what the two documents call for.
C13_CorruptCacheHeals ==
    /\ outcome = "cachedParseErr" =>
           /\ prevBody.kind = "garbage"
           /\ lastRead = cycleAt
           /\ cacheFile = [exists |-> TRUE, last_read |-> cycleAt, last_body |-> lastBody]
    /\ (/\ prevOutcome = "cachedParseErr" /\ outcome \in Downloading
        /\ prevBody.kind = "json" /\ currentBody.kind = "json") =>
           /\ Diffed
           /\ SentKeys = ExpectedKeys
           /\ Len(sent) = Cardinality(ExpectedKeys)

\* the cycle after the one that found a corrupt cached document reports a
\* part completed since
C13_Witness ==
    /\ prevOutcome = "cachedParseErr"
    /\ Diffed
    /\ \E i \in DOMAIN sent : sent[i].kind = "PartCompleted"
    /\ \E i \in DOMAIN sent : sent[i].kind = "NewMember"

\* C14: a failed delivery does not end the cycle and is not retried: whatever
\* each call of sendNotification returns, the cycle attempts exactly the
\* notifications its two documents call for, each once, and a notification
\* whose delivery failed is never attempted again by a later cycle.
C14_DeliveryFailureNotFatal ==
    /\ Diffed =>
           /\ Len(delivered) = Len(sent)
           /\ SentKeys = ExpectedKeys
           /\ Len(sent) = Cardinality(ExpectedKeys)
    /\ notified.failed \cap notified.again = {}

\* the first of three deliveries failed, the second succeeded, the third
\* failed, and a later cycle has run
C14_Witness ==
    /\ Diffed
    /\ Len(sent) = 3
    /\ ~delivered[1] /\ delivered[2] /\ ~delivered[3]
    /\ KeyOf(sent[1]) \in notified.failed
    /\ Cardinality(notified.seen) > 3

\* C18: over cycles that do not overlap, with well-formed documents of a
\* leaderboard that only grows and cache writes that succeed, no NewMember
\* notification of a member and no PartCompleted notification of a (member,
\* day, part) is sent twice.
C18_NotifiedAtMostOnce ==
    /\ notified.again = {}
    /\ Diffed => Len(sent) = Cardinality(SentKeys)

\* four cycles have sent a notification each: one for a new member and one
\* for each of three parts
C18_Witness ==
    /\ now = MaxSeqTime
    /\ Diffed
    /\ Len(sent) = 1
    /\ notified.seen =
           {<<"NewMember", 2, 0, 0>>, <<"PartCompleted", 1, 1, 1>>,
            <<"PartCompleted", 1, 1, 2>>, <<"PartCompleted", 2, 1, 1>>}

\* C19 as claimed: member 1 is in every document and starts without stars;
\* every completion of member 1 that a downloaded document brought is
\* notified by some cycle, also when a downloaded document in between is
\* not JSON.  A completion that has reached lastBody, the baseline of the
\* next diff, can no longer be notified, so it must have been by then.
C19_NoCompletionLost ==
    lastBody.kind = "json" =>
        \A day \in DaysOf(lastBody, 1), part \in {1, 2} :
            RawPart(lastBody, 1, day, part) # Nil =>
                <<"PartCompleted", 1, day, part>> \in notified.seen

====
